---- MODULE Spec2Model ----
(***************************************************************************)
(* The held-out proportion sweep of "Comparing Various Online Solvers"     *)
(* (notebook cells In [3] and In [4]): for every (name, clf) pair, for     *)
(* every held-out proportion, `rounds` random train/test splits are drawn, *)
(* the classifier is fitted and scored, and the mean error rate of the     *)
(* rounds becomes one point of that classifier's curve.                    *)
(*                                                                         *)
(* Proportions are percentages (95 stands for 0.95).  Error rates are      *)
(* exact fractions <<numerator, denominator>> in lowest terms; <<0, 0>> is *)
(* NaN, the value numpy's mean gives for an empty array.                   *)
(***************************************************************************)
EXTENDS Integers, Sequences, FiniteSets, TLC

VARIABLES
    heldout,      \* In [3]: the list of held-out proportions (percent)
    rounds,       \* In [3]: the repetition count
    y,            \* In [3]: the labels of the dataset, one per sample
    classifiers,  \* In [3]: the list of classifiers (their kinds)
    globalRng,    \* numpy's process-wide generator, used by SGDClassifier()
    pc,           \* the statement of In [4] to execute next
    run,          \* how many times cell In [4] has been started
    ci,           \* position of the `for name, clf` loop (1-based, 0 before)
    hi,           \* position of the `for i in heldout` loop (1-based)
    r,            \* rounds started by `for r in range(rounds)` (code's r + 1)
    rng,          \* the RandomState object bound to `rng`
    yy,           \* the curve being built for the current classifier
    yy_,          \* the error rates of the current proportion
    ind_train,    \* sample indices of X_train / y_train
    ind_test,     \* sample indices of X_test / y_test
    fitted,       \* trained state of every classifier instance
    y_pred,       \* predictions of the current round
    data,         \* the list of traces
    fig,          \* the figure, once built
    raised,       \* the exception that left the cell, if any
    prevData,     \* history: `data` at the end of the previous run of In [4]
    splits,       \* history: the splits drawn in this run, per classifier
    obs,          \* history: the error rates of this classifier, per proportion
    calls         \* history: the library calls made for this classifier

vars == <<heldout, rounds, y, classifiers, globalRng, pc, run, ci, hi, r, rng,
          yy, yy_, ind_train, ind_test, fitted, y_pred, data, fig, raised,
          prevData, splits, obs, calls>>

config == <<heldout, rounds, y, classifiers>>

(***************************************************************************)
(* Bounds of the model                                                     *)
(***************************************************************************)
NSamples == 4
MaxHeldout == 2
MaxRounds == 2
MaxEntropy == 1

(***************************************************************************)
(* Program constants                                                       *)
(***************************************************************************)
SEED == 42

\* proportions of the notebook's list that the model draws from
PROPS == {95, 50, 1}

Labels == {0, 1}

\* The classifier kinds: a deterministic rule (majority class of the training
\* subset), an estimator built without random_state (it draws from numpy's
\* process-wide generator, as SGDClassifier() does), and one whose fit or
\* predict may raise.
Kinds == {"majority", "sgd", "faulty"}

ClassifierLists ==
    { <<"majority">>, <<"sgd">>, <<"majority", "majority">>,
      <<"majority", "sgd">>, <<"faulty", "majority">>, <<"majority", "faulty">> }

Deterministic(kind) == kind = "majority"

(***************************************************************************)
(* Exact fractions                                                         *)
(***************************************************************************)
RECURSIVE GCD(_, _)
GCD(a, b) == IF b = 0 THEN a ELSE GCD(b, a % b)

NaN == <<0, 0>>

IsNaN(q) == q[2] = 0

Frac(n, d) ==
    IF d = 0 THEN NaN
    ELSE LET g == GCD(IF n < 0 THEN -n ELSE n, d) IN <<n \div g, d \div g>>

FracAdd(p, q) ==
    IF IsNaN(p) \/ IsNaN(q) THEN NaN
    ELSE Frac(p[1] * q[2] + q[1] * p[2], p[2] * q[2])

RECURSIVE FracSum(_)
FracSum(s) == IF s = <<>> THEN <<0, 1>> ELSE FracAdd(Head(s), FracSum(Tail(s)))

\* np.mean(list): the sum divided by the length; NaN for an empty list
Mean(s) ==
    IF s = <<>> THEN NaN
    ELSE LET t == FracSum(s) IN
         IF IsNaN(t) THEN NaN ELSE Frac(t[1], t[2] * Len(s))

InUnitInterval(q) == ~IsNaN(q) /\ 0 <= q[1] /\ q[1] <= q[2]

(***************************************************************************)
(* The random generator                                                    *)
(***************************************************************************)
\* np.random.RandomState(seed): the state is a function of the seed alone
RandomState(seed) == seed % 256

\* one step of the generator
RngNext(s) == (141 * s + 3) % 256

\* a draw in 0..n-1 from state s
RngInterval(s, n) == (s \div 8) % n

Swap(p, i, j) == [p EXCEPT ![i] = p[j], ![j] = p[i]]

\* rng.permutation(n): a Fisher-Yates shuffle of 1..n, one draw per position
\* from the last down to the second.  Gives <<permutation, state after>>.
RECURSIVE Shuffle(_, _, _)
Shuffle(p, i, s) ==
    IF i <= 1 THEN <<p, s>>
    ELSE LET s1 == RngNext(s)
             j == RngInterval(s1, i) + 1
         IN Shuffle(Swap(p, i, j), i - 1, s1)

Permutation(n, s) == Shuffle([k \in 1..n |-> k], n, s)


\* every state the generator can be in
RngStates == {RngNext(s) : s \in 0..255} \cup {RandomState(SEED)}

(***************************************************************************)
(* train_test_split(X, y, test_size=i, random_state=rng)                   *)
(***************************************************************************)
\* ceil(p / 100 * n)
Ceil(p, n) == (p * n + 99) \div 100

\* int(p / 100 * n): the fraction is truncated
NTest_Floor(p, n) == (p * n) \div 100

NTest(p, n) == Ceil(p, n)

NTrain(p, n) == n - NTest(p, n)

\* permutation[from : from + n]
Slice(s, from, n) == [k \in 1..n |-> s[from + k]]

\* [test, train, rng]: the first n_test indices of the permutation are the
\* test subset, the following n_train the training subset
TrainTestSplit(p, s) ==
    LET sh == Permutation(NSamples, s)
        nt == NTest(p, NSamples)
    IN [test  |-> Slice(sh[1], 0, nt),
        train |-> Slice(sh[1], nt, NTrain(p, NSamples)),
        rng   |-> sh[2]]

(***************************************************************************)
(* Classifiers                                                             *)
(***************************************************************************)
Count(s, v) == Cardinality({k \in 1..Len(s) : s[k] = v})

LabelsOf(ind) == [k \in 1..Len(ind) |-> y[ind[k]]]


\* the comparison reversed: the rarer class is learnt
Minority(lab) == IF Count(lab, 1) > Count(lab, 0) THEN 0 ELSE 1

\* the majority class of the labels (the smaller label on a tie)
Majority(lab) == IF Count(lab, 1) > Count(lab, 0) THEN 1 ELSE 0

\* an estimator that has been constructed and not yet fitted
Unfit == -1

\* clf.predict(X_test): the fitted label for every test sample
Predict(label, ind) == [k \in 1..Len(ind) |-> label]

\* 1 - np.sum(y_pred == y_test): the hits are counted, not averaged
ErrorRate_Sum(pred, test) ==
    LET n == Len(test)
        hits == Cardinality({k \in 1..n : pred[k] = test[k]})
    IN Frac(1 - hits, 1)

\* 1 - np.mean(y_pred == y_test)
ErrorRate(pred, test) ==
    LET n == Len(test)
        hits == Cardinality({k \in 1..n : pred[k] = test[k]})
    IN IF n = 0 THEN NaN ELSE Frac(n - hits, n)

(***************************************************************************)
(* The cell In [4], statement by statement                                 *)
(***************************************************************************)
NoException == [exc |-> "none", context |-> <<>>]

Name(k) == <<k, classifiers[k]>>


\* the failure is caught per classifier and the loop goes on with the next
RaiseSkipsClassifier(exc) ==
    /\ pc' = "for_clf"
    /\ raised' = [exc |-> exc, context |-> <<>>]

\* the round is wrapped in try/except and the loop goes on
RaiseAndContinue(exc) ==
    /\ pc' = "for_round"
    /\ raised' = [exc |-> exc, context |-> <<>>]

\* an exception leaves the loops: the cell stops, nothing is attached to it
Raise(exc) ==
    /\ pc' = "raised"
    /\ raised' = [exc |-> exc, context |-> <<>>]

\* data = []
DataInit ==
    /\ pc = "data_init"
    /\ data' = <<>>
    /\ ci' = 0
    /\ pc' = "for_clf"
    /\ UNCHANGED <<config, globalRng, run, hi, r, rng, yy, yy_, ind_train,
                   ind_test, fitted, y_pred, fig, raised, prevData, splits,
                   obs, calls>>

\* xx = np.array(heldout): the complement forgotten
xx_NotComplemented == heldout

\* xx = 1. - np.array(heldout)
xx == [k \in 1..Len(heldout) |-> 100 - heldout[k]]


\* the first statement of a classifier's iteration that touches the generator
KeepRng(old) == old

\* rng = np.random.RandomState(42)
ClassifierRng(old) == RandomState(SEED)

PrependCurve(curve, v) == <<v>> \o curve

\* yy.append(v)
AppendCurve(curve, v) == Append(curve, v)

\* for name, clf in classifiers: print; rng = RandomState(42); yy = []
ForClassifier ==
    /\ pc = "for_clf"
    /\ IF ci < Len(classifiers)
       THEN /\ ci' = ci + 1
            /\ rng' = ClassifierRng(rng)
            /\ yy' = <<>>
            /\ hi' = 0
            /\ obs' = [k \in 1..Len(heldout) |-> <<>>]
            /\ calls' = <<>>
            /\ pc' = "for_heldout"
       ELSE /\ pc' = "figure"
            /\ UNCHANGED <<ci, rng, yy, hi, obs, calls>>
    /\ UNCHANGED <<config, globalRng, run, r, yy_, ind_train, ind_test, fitted,
                   y_pred, data, fig, raised, prevData, splits>>

KeepAccumulator(old) == old

\* yy_ = []
NewAccumulator(old) == <<>>

\* the loop header re-creating the generator for every proportion
ForHeldout_Reseed ==
    /\ pc = "for_heldout"
    /\ IF hi < Len(heldout)
       THEN /\ hi' = hi + 1
            /\ rng' = RandomState(SEED)
            /\ yy_' = NewAccumulator(yy_)
            /\ r' = 0
            /\ pc' = "for_round"
       ELSE /\ pc' = "trace"
            /\ UNCHANGED <<hi, yy_, r, rng>>
    /\ UNCHANGED <<config, globalRng, run, ci, yy, ind_train, ind_test,
                   fitted, y_pred, data, fig, raised, prevData, splits, obs,
                   calls>>


\* data.append(trace) dedented out of the classifier loop: the loop moves on
\* to the next classifier without emitting the curve
ForHeldout_TraceOutsideLoop ==
    /\ pc = "for_heldout"
    /\ IF hi < Len(heldout)
       THEN /\ hi' = hi + 1
            /\ yy_' = NewAccumulator(yy_)
            /\ r' = 0
            /\ pc' = "for_round"
       ELSE /\ pc' = "for_clf"
            /\ UNCHANGED <<hi, yy_, r>>
    /\ UNCHANGED <<config, globalRng, run, ci, rng, yy, ind_train, ind_test,
                   fitted, y_pred, data, fig, raised, prevData, splits, obs,
                   calls>>

\* for i in heldout: yy_ = []
ForHeldout ==
    /\ pc = "for_heldout"
    /\ IF hi < Len(heldout)
       THEN /\ hi' = hi + 1
            /\ yy_' = NewAccumulator(yy_)
            /\ r' = 0
            /\ pc' = "for_round"
       ELSE /\ pc' = "trace"
            /\ UNCHANGED <<hi, yy_, r>>
    /\ UNCHANGED <<config, globalRng, run, ci, rng, yy, ind_train, ind_test,
                   fitted, y_pred, data, fig, raised, prevData, splits, obs,
                   calls>>

\* for r in range(rounds)
ForRound ==
    /\ pc = "for_round"
    /\ IF r < rounds
       THEN /\ r' = r + 1
            /\ pc' = "split"
       ELSE /\ pc' = "mean"
            /\ r' = r
    /\ UNCHANGED <<config, globalRng, run, ci, hi, rng, yy, yy_, ind_train,
                   ind_test, fitted, y_pred, data, fig, raised, prevData,
                   splits, obs, calls>>

Call(op) == [op |-> op, hi |-> hi, r |-> r]

\* X_train, X_test, y_train, y_test = train_test_split(...): the partition is
\* drawn from rng, which advances
SplitDraws ==
    /\ pc = "split"
    /\ LET sp == TrainTestSplit(heldout[hi], rng) IN
       /\ ind_train' = sp.train
       /\ ind_test' = sp.test
       /\ rng' = sp.rng
       /\ splits' = [splits EXCEPT ![ci] = Append(@,
                        [hi |-> hi, r |-> r, test |-> sp.test,
                         train |-> sp.train, before |-> rng, after |-> sp.rng])]
    /\ calls' = Append(calls, Call("split"))
    /\ pc' = "fit"
    /\ UNCHANGED <<config, globalRng, run, ci, hi, r, yy, yy_, fitted, y_pred,
                   data, fig, raised, prevData, obs>>


\* the split refuses every proportion outside [0.05, 0.90]
SplitRaises_RejectsExtremes ==
    /\ pc = "split"
    /\ heldout[hi] < 5 \/ heldout[hi] > 90
    /\ Raise("ValueError")
    /\ UNCHANGED <<config, globalRng, run, ci, hi, r, rng, yy, yy_, ind_train,
                   ind_test, fitted, y_pred, data, fig, prevData, splits, obs,
                   calls>>

\* train_test_split finds the training subset empty: library releases that
\* validate the sizes raise ValueError before drawing anything, the others
\* return the empty subset (SplitDraws)
SplitRaises ==
    /\ pc = "split"
    /\ NTrain(heldout[hi], NSamples) = 0
    /\ Raise("ValueError")
    /\ UNCHANGED <<config, globalRng, run, ci, hi, r, rng, yy, yy_, ind_train,
                   ind_test, fitted, y_pred, data, fig, prevData, splits, obs,
                   calls>>

\* what fit learns: [label, g], g the process-wide generator afterwards
FitResult(kind, lab, g) ==
    IF kind = "sgd"
    THEN LET g1 == RngNext(g) IN
         [label |-> lab[RngInterval(g1, Len(lab)) + 1], g |-> g1]
    ELSE [label |-> Majority(lab), g |-> g]


\* a classifier that trains on whatever it is given, an empty subset included
FitReturns_AcceptsEmpty ==
    /\ pc = "fit"
    /\ LET f == IF Len(ind_train) = 0
                THEN [label |-> 0, g |-> globalRng]
                ELSE FitResult(classifiers[ci], LabelsOf(ind_train), globalRng)
       IN /\ fitted' = [fitted EXCEPT ![ci] = f.label]
          /\ globalRng' = f.g
    /\ calls' = Append(calls, Call("fit"))
    /\ pc' = "predict"
    /\ UNCHANGED <<config, run, ci, hi, r, rng, yy, yy_, ind_train, ind_test,
                   y_pred, data, fig, raised, prevData, splits, obs>>

\* one estimator object listed under every name
FitReturns_SharedInstance ==
    /\ pc = "fit"
    /\ Len(ind_train) > 0
    /\ LET f == FitResult(classifiers[ci], LabelsOf(ind_train), globalRng) IN
       /\ fitted' = [k \in 1..Len(classifiers) |-> f.label]
       /\ globalRng' = f.g
    /\ calls' = Append(calls, Call("fit"))
    /\ pc' = "predict"
    /\ UNCHANGED <<config, run, ci, hi, r, rng, yy, yy_, ind_train, ind_test,
                   y_pred, data, fig, raised, prevData, splits, obs>>

\* clf.fit(X_train, y_train) returns
FitReturns ==
    /\ pc = "fit"
    /\ Len(ind_train) > 0
    /\ LET f == FitResult(classifiers[ci], LabelsOf(ind_train), globalRng) IN
       /\ fitted' = [fitted EXCEPT ![ci] = f.label]
       /\ globalRng' = f.g
    /\ calls' = Append(calls, Call("fit"))
    /\ pc' = "predict"
    /\ UNCHANGED <<config, run, ci, hi, r, rng, yy, yy_, ind_train, ind_test,
                   y_pred, data, fig, raised, prevData, splits, obs>>


\* clf.fit raises: every estimator rejects an empty training subset, and the
\* faulty kind may fail on any
FitRaises ==
    /\ pc = "fit"
    /\ Len(ind_train) = 0 \/ classifiers[ci] = "faulty"
    /\ Raise(IF Len(ind_train) = 0 THEN "ValueError" ELSE "FitError")
    /\ calls' = Append(calls, Call("fit"))
    /\ UNCHANGED <<config, globalRng, run, ci, hi, r, rng, yy, yy_, ind_train,
                   ind_test, fitted, y_pred, data, fig, prevData, splits, obs>>


\* y_pred = clf.predict(X_train): the training subset is scored
PredictReturns_OnTrain ==
    /\ pc = "predict"
    /\ y_pred' = Predict(fitted[ci], ind_train)
    /\ calls' = Append(calls, Call("predict"))
    /\ pc' = "record"
    /\ UNCHANGED <<config, globalRng, run, ci, hi, r, rng, yy, yy_, ind_train,
                   ind_test, fitted, data, fig, raised, prevData, splits, obs>>

\* y_pred = clf.predict(X_test) returns
PredictReturns ==
    /\ pc = "predict"
    /\ y_pred' = Predict(fitted[ci], ind_test)
    /\ calls' = Append(calls, Call("predict"))
    /\ pc' = "record"
    /\ UNCHANGED <<config, globalRng, run, ci, hi, r, rng, yy, yy_, ind_train,
                   ind_test, fitted, data, fig, raised, prevData, splits, obs>>

\* clf.predict raises
PredictRaises ==
    /\ pc = "predict"
    /\ classifiers[ci] = "faulty"
    /\ Raise("PredictError")
    /\ calls' = Append(calls, Call("predict"))
    /\ UNCHANGED <<config, globalRng, run, ci, hi, r, rng, yy, yy_, ind_train,
                   ind_test, fitted, y_pred, data, fig, prevData, splits, obs>>

\* yy_.append(1 - np.mean(y_pred == y_test))
Record ==
    /\ pc = "record"
    /\ LET e == ErrorRate(y_pred, LabelsOf(ind_test)) IN
       /\ yy_' = Append(yy_, e)
       /\ obs' = [obs EXCEPT ![hi] = Append(@, e)]
    /\ calls' = Append(calls, Call("record"))
    /\ pc' = "for_round"
    /\ UNCHANGED <<config, globalRng, run, ci, hi, r, rng, yy, ind_train,
                   ind_test, fitted, y_pred, data, fig, raised, prevData,
                   splits>>

\* yy.append(np.mean(yy_))
MeanOfRounds ==
    /\ pc = "mean"
    /\ yy' = AppendCurve(yy, Mean(yy_))
    /\ pc' = "for_heldout"
    /\ UNCHANGED <<config, globalRng, run, ci, hi, r, rng, yy_, ind_train,
                   ind_test, fitted, y_pred, data, fig, raised, prevData,
                   splits, obs, calls>>

\* trace = go.Scatter(x=xx, y=yy, mode='lines', name=name); data.append(trace)
Trace ==
    /\ pc = "trace"
    /\ data' = Append(data, [x |-> xx, y |-> yy, mode |-> "lines",
                             name |-> Name(ci)])
    /\ pc' = "for_clf"
    /\ UNCHANGED <<config, globalRng, run, ci, hi, r, rng, yy, yy_, ind_train,
                   ind_test, fitted, y_pred, fig, raised, prevData, splits,
                   obs, calls>>

\* layout = go.Layout(...); fig = go.Figure(data=data, layout=layout)
Figure ==
    /\ pc = "figure"
    /\ fig' = [data |-> data,
               layout |-> [xaxis |-> "Proportion train",
                           yaxis |-> "Test Error Rate"]]
    /\ pc' = "done"
    /\ UNCHANGED <<config, globalRng, run, ci, hi, r, rng, yy, yy_, ind_train,
                   ind_test, fitted, y_pred, data, raised, prevData, splits,
                   obs, calls>>

\* the cell is executed a second time in the same session: every name of the
\* session keeps its value until the cell assigns it again
Rerun ==
    /\ pc = "done"
    /\ run = 1
    /\ run' = 2
    /\ prevData' = data
    /\ splits' = [k \in 1..Len(classifiers) |-> <<>>]
    /\ pc' = "data_init"
    /\ UNCHANGED <<config, globalRng, ci, hi, r, rng, yy, yy_, ind_train,
                   ind_test, fitted, y_pred, data, fig, raised, obs, calls>>

(***************************************************************************)
(* The session before In [4] runs: In [3] has built the configuration      *)
(***************************************************************************)
HeldoutLists ==
    UNION {[1..n -> PROPS] : n \in 0..MaxHeldout}

\* two datasets: balanced (alternating labels) and one sample of class 1
Datasets ==
    { [k \in 1..NSamples |-> k % 2],
      [k \in 1..NSamples |-> IF k = NSamples THEN 1 ELSE 0] }

Init ==
    /\ heldout \in HeldoutLists
    /\ rounds \in -1..MaxRounds
    /\ y \in Datasets
    /\ classifiers \in ClassifierLists
    /\ globalRng \in 0..MaxEntropy
    /\ pc = "data_init"
    /\ run = 1
    /\ ci = 0
    /\ hi = 0
    /\ r = 0
    /\ rng = 0
    /\ yy = <<>>
    /\ yy_ = <<>>
    /\ ind_train = <<>>
    /\ ind_test = <<>>
    /\ fitted = [k \in 1..Len(classifiers) |-> Unfit]
    /\ y_pred = <<>>
    /\ data = <<>>
    /\ fig = "none"
    /\ raised = NoException
    /\ prevData = <<>>
    /\ splits = [k \in 1..Len(classifiers) |-> <<>>]
    /\ obs = [k \in 1..Len(heldout) |-> <<>>]
    /\ calls = <<>>

Next ==
    \/ DataInit
    \/ ForClassifier
    \/ ForHeldout
    \/ ForRound
    \/ SplitDraws
    \/ SplitRaises
    \/ FitReturns
    \/ FitRaises
    \/ PredictReturns
    \/ PredictRaises
    \/ Record
    \/ MeanOfRounds
    \/ Trace
    \/ Figure
    \/ Rerun

Spec == Init /\ [][Next]_vars

(***************************************************************************)
(* Properties                                                              *)
(***************************************************************************)
ValidConfig == Len(heldout) >= 1 /\ rounds >= 1

AllDeterministic == \A k \in 1..Len(classifiers) : Deterministic(classifiers[k])

\* C1: under a valid configuration, when a classifier's loops have finished
\* its curve yy has one entry per held-out proportion, the k-th entry being
\* the mean of the error rates observed at the k-th proportion; every trace
\* emitted carries a curve of that length.
C1_CurveAligned ==
    ValidConfig =>
        /\ pc = "trace" =>
              /\ Len(yy) = Len(heldout)
              /\ \A k \in 1..Len(heldout) : yy[k] = Mean(obs[k])
        /\ \A k \in 1..Len(data) : Len(data[k].y) = Len(heldout)

C1_Witness ==
    /\ ValidConfig
    /\ pc = "trace"
    /\ Len(heldout) = 2
    /\ heldout[1] # heldout[2]
    /\ yy[1] # yy[2]

\* C2: with rounds >= 1, every per-round error rate and every curve value is
\* a number in the closed interval [0, 1].
C2_ErrorRatesInUnitInterval ==
    rounds >= 1 =>
        /\ \A k \in 1..Len(yy_) : InUnitInterval(yy_[k])
        /\ \A k \in 1..Len(yy) : InUnitInterval(yy[k])
        /\ \A d \in 1..Len(data) :
              \A k \in 1..Len(data[d].y) : InUnitInterval(data[d].y[k])

C2_Witness ==
    /\ rounds >= 1
    /\ pc = "trace"
    /\ \E k \in 1..Len(yy) : 0 < yy[k][1] /\ yy[k][1] < yy[k][2]
    /\ \E k \in 1..Len(yy) : yy[k] = <<1, 1>>

\* C3: when the cell is run a second time with the same seed, dataset and
\* configuration and only deterministic classifiers, the second run builds
\* the same curves as the first, entry for entry.
C3_Deterministic ==
    (run = 2 /\ pc # "data_init" /\ AllDeterministic) =>
        /\ Len(data) <= Len(prevData)
        /\ \A k \in 1..Len(data) : data[k] = prevData[k]
        /\ pc = "done" => data = prevData

C3_Witness ==
    /\ run = 2
    /\ pc = "done"
    /\ AllDeterministic
    /\ Len(data) = 2
    /\ Len(heldout) = 2
    /\ rounds = 2
    /\ data[1].y[1] # data[1].y[2]

Last(s) == s[Len(s)]

\* the classifiers whose trace has been emitted in this run
Completed(k) == k <= Len(data) /\ pc # "data_init"

\* C4 (as claimed): the generator is seeded once for the whole sweep, so the
\* first split of every later classifier continues the sequence where the
\* classifier before it stopped.
C4_SharedSequence ==
    \A k \in 2..Len(classifiers) :
        (splits[k] # <<>> /\ splits[k - 1] # <<>>) =>
            splits[k][1].before = Last(splits[k - 1]).after

\* C4 (amended): the generator is created anew from the seed 42 at the start
\* of every classifier, so the first split of every classifier, the second
\* classifier included, is drawn from the freshly seeded state.
C4_ReseededPerClassifier ==
    \A k \in 1..Len(classifiers) :
        splits[k] # <<>> => splits[k][1].before = RandomState(SEED)

C4_Witness ==
    /\ Len(classifiers) = 2
    /\ splits[1] # <<>>
    /\ splits[2] # <<>>
    /\ Last(splits[1]).after # RandomState(SEED)

\* C5: within a classifier the generator is never reseeded: every split but
\* the first starts from the state the split before it left, the generator
\* rests in the state the last split left, all classifiers draw the same
\* splits in the same order, and a finished classifier has drawn
\* len(heldout) * rounds of them (rounds not negative).
C5_NoReseedWithinClassifier ==
    \A k \in 1..Len(classifiers) :
        /\ \A n \in 2..Len(splits[k]) :
              splits[k][n].before = splits[k][n - 1].after
        /\ (k = ci /\ splits[k] # <<>> /\ pc # "data_init") =>
              rng = Last(splits[k]).after
        /\ \A j \in 1..Len(classifiers) :
              \A n \in 1..Len(splits[k]) :
                  n <= Len(splits[j]) =>
                      /\ splits[j][n].test = splits[k][n].test
                      /\ splits[j][n].train = splits[k][n].train
                      /\ splits[j][n].hi = splits[k][n].hi
                      /\ splits[j][n].r = splits[k][n].r
        /\ (Completed(k) /\ rounds >= 0) =>
              Len(splits[k]) = Len(heldout) * rounds

C5_Witness ==
    /\ Len(data) = 2
    /\ pc = "figure"
    /\ Len(splits[2]) = 4
    /\ splits[2][1].test # splits[2][2].test
    /\ splits[2][2].test # splits[2][3].test
    /\ heldout[1] = heldout[2]

\* C6: every curve value is the arithmetic mean of exactly `rounds` error
\* rates, all observed at its own proportion: the accumulator holds the
\* observations of the current proportion only, and rounds times the curve
\* value is the sum of that proportion's observations; with rounds = 1 the
\* curve value is the single observation.
C6_MeanOfRounds ==
    /\ pc \in {"for_round", "split", "fit", "predict", "record", "mean"} =>
          yy_ = obs[hi]
    /\ rounds >= 1 =>
          \A k \in 1..Len(yy) :
              LET total == FracSum(obs[k]) IN
              /\ Len(obs[k]) = rounds
              /\ ~IsNaN(yy[k])
              /\ yy[k][1] * rounds * total[2] = total[1] * yy[k][2]
              /\ rounds = 1 => yy[k] = obs[k][1]

C6_Witness ==
    /\ rounds = 2
    /\ Len(yy) = 2
    /\ obs[1] # obs[2]
    /\ obs[2][1] # obs[2][2]
    /\ yy[2] # obs[2][1]
    /\ yy[2] # obs[2][2]

NoSplitDrawn == \A k \in 1..Len(classifiers) : splits[k] = <<>>

\* C7 (as claimed): with an empty proportion list or rounds <= 0 the sweep
\* reports a configuration error before any round: it never completes, draws
\* no split, calls no classifier and produces no curve value and no trace.
C7_ConfigErrorReported ==
    ~ValidConfig =>
        /\ pc # "done"
        /\ pc = "raised" => raised.exc = "ConfigurationError"
        /\ NoSplitDrawn
        /\ calls = <<>>
        /\ yy = <<>>
        /\ data = <<>>

FailedInClassifier ==
    /\ pc = "raised"
    /\ calls # <<>>
    /\ Last(calls).op \in {"fit", "predict"}

\* C8 (as claimed): a failure of fit or predict reaches the caller carrying
\* the classifier name, the held-out proportion and the round index of the
\* failing round.
C8_FailureCarriesContext ==
    FailedInClassifier =>
        raised.context = <<Name(ci), heldout[hi], r - 1>>

\* C9: once a round has failed nothing more is executed: no split is drawn,
\* no fit or predict is called, no curve value or trace is appended.
C9_NothingAfterFailure ==
    [][raised.exc # "none" =>
          UNCHANGED <<rng, splits, calls, fitted, y_pred, yy_, yy, data, fig>>]_vars

C9_Witness ==
    /\ raised.exc = "PredictError"
    /\ r < rounds
    /\ hi < Len(heldout)
    /\ ci < Len(classifiers)
    /\ Len(calls) > 2

\* C10: no round is scored on an empty test subset and no round's error rate
\* is NaN: every split drawn has at least one test sample, also at a
\* proportion so small that its share of the dataset is below one sample.
C10_NoUndefinedErrorRate ==
    /\ \A k \in 1..Len(classifiers) :
          \A n \in 1..Len(splits[k]) : Len(splits[k][n].test) >= 1
    /\ pc \in {"fit", "predict", "record"} => Len(ind_test) >= 1
    /\ \A k \in 1..Len(yy_) : ~IsNaN(yy_[k])
    /\ \A h \in 1..Len(obs) : \A k \in 1..Len(obs[h]) : ~IsNaN(obs[h][k])

C10_Witness ==
    /\ pc = "for_round"
    /\ yy_ # <<>>
    /\ heldout[hi] * NSamples < 100
    /\ Len(ind_test) = 1

\* the proportion at position h leaves no sample for training
DegenerateSplit(h) == NTrain(heldout[h], NSamples) = 0

C12_AllRoundsRun ==
    (\A k \in 1..Len(classifiers) : classifiers[k] # "faulty") =>
        /\ pc # "raised"
        /\ (pc = "mean" /\ rounds >= 0) => Len(yy_) = rounds

\* C12 (amended): the sweep itself checks no proportion: each is handed to
\* train_test_split as it is, and `rounds` rounds are run for it unless a
\* round raises.  A round raises only when the proportion leaves the training
\* subset empty (ValueError from the library) or when the classifier fails.
C12_RoundsRunUnlessRaised ==
    /\ raised.exc \in {"none", "ValueError", "FitError", "PredictError"}
    /\ (pc = "raised" /\ ~DegenerateSplit(hi)) =>
          /\ classifiers[ci] = "faulty"
          /\ raised.exc \in {"FitError", "PredictError"}
    /\ (pc = "mean" /\ rounds >= 0) => Len(yy_) = rounds
    /\ (pc = "raised" /\ DegenerateSplit(hi)) => raised.exc = "ValueError"

C12_Witness ==
    /\ pc = "mean"
    /\ rounds = 2
    /\ heldout[hi] = 1
    /\ Len(yy_) = 2
    /\ hi = 2
    /\ heldout[1] = 50

InRound == pc \in {"split", "fit", "predict", "record"}

\* (hi, r) of call a is not after (hi, r) of call b
NotAfter(a, b) == a.hi < b.hi \/ (a.hi = b.hi /\ a.r <= b.r)

\* C13: classifiers are processed one after the other in list order: while a
\* round of classifier ci runs, every classifier before it has drawn all its
\* len(heldout) * rounds splits and has its trace in data, and no classifier
\* after it has started; within the classifier every earlier proportion has
\* all its rounds and its curve value, no later proportion has any, and the
\* calls made are in (proportion, round) order.
C13_StrictlySequential ==
    /\ InRound =>
          /\ Len(data) = ci - 1
          /\ \A k \in 1..(ci - 1) :
                /\ Len(splits[k]) = Len(heldout) * rounds
                /\ data[k].name = Name(k)
          /\ \A k \in (ci + 1)..Len(classifiers) : splits[k] = <<>>
          /\ Len(yy) = hi - 1
          /\ \A h \in 1..(hi - 1) : Len(obs[h]) = rounds
          /\ \A h \in (hi + 1)..Len(heldout) : obs[h] = <<>>
          /\ Len(obs[hi]) = r - 1
    /\ \A n \in 2..Len(calls) : NotAfter(calls[n - 1], calls[n])

C13_Witness ==
    /\ pc = "split"
    /\ ci = 2
    /\ hi = 2
    /\ r = 2
    /\ Len(data) = 1
    /\ Len(splits[1]) = 4

Balanced == Count(y, 0) = Count(y, 1)

\* one round of the majority rule at proportion 0.5, split drawn in state s
MajorityError(s) ==
    LET sp == TrainTestSplit(50, s)
        label == Majority(LabelsOf(sp.train))
    IN ErrorRate(Predict(label, sp.test), LabelsOf(sp.test))

AtMostHalf(q) == ~IsNaN(q) /\ 0 <= q[1] /\ 2 * q[1] <= q[2]

AtLeastHalf(q) == ~IsNaN(q) /\ 2 * q[1] >= q[2] /\ q[1] <= q[2]

\* C15 (as claimed): on a balanced two-class dataset the curve value of the
\* majority rule at proportion 0.5 lies in [0, 0.5].
C15_MajorityErrorAtMostHalf ==
    (Balanced /\ rounds >= 1 /\ ci >= 1 /\ classifiers[ci] = "majority") =>
        \A k \in 1..Len(yy) : heldout[k] = 50 => AtMostHalf(yy[k])

\* C15 (amended): on a balanced two-class dataset the majority class of the
\* training half is the minority class of the test half, so every round's
\* error rate of the majority rule at proportion 0.5, for every split the
\* generator can draw, and with it the curve value, lies in [0.5, 1].
C15_MajorityErrorAtLeastHalf ==
    (Balanced /\ rounds >= 1) =>
        /\ (pc = "data_init" /\ run = 1) =>
              \A s \in RngStates : AtLeastHalf(MajorityError(s))
        /\ (ci >= 1 /\ classifiers[ci] = "majority") =>
              /\ \A k \in 1..Len(yy) : heldout[k] = 50 => AtLeastHalf(yy[k])
              /\ \A h \in 1..Len(obs) :
                    heldout[h] = 50 =>
                        \A n \in 1..Len(obs[h]) : AtLeastHalf(obs[h][n])

C15_Witness ==
    /\ Balanced
    /\ ci >= 1
    /\ classifiers[ci] = "majority"
    /\ heldout = <<50, 50>>
    /\ rounds = 2
    /\ pc = "trace"
    /\ yy[1] = <<1, 2>>
    /\ 2 * yy[2][1] > yy[2][2]
    /\ yy[2][1] < yy[2][2]

\* C16: the chart data has one trace per classifier, in list order and named
\* after it; the k-th point of a trace has x = 1 - heldout[k] and y = the k-th
\* value of that classifier's curve, x and y having the same length; the
\* figure is built from exactly these traces.
C16_OneTracePerClassifier ==
    /\ pc # "data_init" =>
          /\ Len(data) <= Len(classifiers)
          /\ \A k \in 1..Len(data) :
                /\ data[k].name = Name(k)
                /\ data[k].mode = "lines"
                /\ Len(data[k].x) = Len(heldout)
                /\ Len(data[k].y) = Len(data[k].x)
                /\ \A j \in 1..Len(heldout) : data[k].x[j] = 100 - heldout[j]
          /\ (pc \in {"for_clf", "figure", "done"} /\ ci >= 1) =>
                /\ Len(data) = ci
                /\ data[ci].y = yy
    /\ pc = "done" =>
          /\ Len(data) = Len(classifiers)
          /\ fig.data = data

C16_Witness ==
    /\ pc = "done"
    /\ Len(data) = 2
    /\ Len(heldout) = 2
    /\ heldout[1] # heldout[2]
    /\ rounds >= 1
    /\ data[1].y # data[2].y
    /\ data[1].y[1] # data[1].y[2]

RoundOps == <<"split", "fit", "predict", "record">>

Range(s) == {s[k] : k \in 1..Len(s)}

\* C17: the calls of a classifier come in rounds of split, fit, predict,
\* record, each once and in this order, every round a new (proportion, round)
\* pair, so a finished classifier was fitted len(heldout) * rounds times; fit
\* sees the training subset and predict the test subset of the partition
\* drawn in the same round, predict uses the state that round's fit left, and
\* the error rate recorded compares the predictions with that partition's
\* test labels.
C17_RoundBody ==
    /\ \A n \in 1..Len(calls) :
          /\ calls[n].op = RoundOps[((n - 1) % 4) + 1]
          /\ (n % 4 # 1) =>
                (calls[n].hi = calls[n - 1].hi /\ calls[n].r = calls[n - 1].r)
          /\ (n % 4 = 1 /\ n > 1) =>
                (NotAfter(calls[n - 1], calls[n])
                    /\ ~NotAfter(calls[n], calls[n - 1]))
    /\ (pc = "trace" /\ rounds >= 0) =>
          Len(calls) = 4 * Len(heldout) * rounds
    /\ pc \in {"fit", "predict", "record"} =>
          /\ ind_test = Last(splits[ci]).test
          /\ ind_train = Last(splits[ci]).train
          /\ Range(ind_test) \cap Range(ind_train) = {}
          /\ Range(ind_test) \cup Range(ind_train) = 1..NSamples
    /\ pc \in {"predict", "record"} =>
          /\ fitted[ci] \in Range(LabelsOf(ind_train))
          /\ classifiers[ci] # "sgd" =>
                fitted[ci] = Majority(LabelsOf(ind_train))
    /\ pc = "record" =>
          /\ Len(y_pred) = Len(ind_test)
          /\ \A k \in 1..Len(y_pred) : y_pred[k] = fitted[ci]
    /\ (pc = "for_round" /\ r >= 1) =>
          /\ Len(yy_) = r
          /\ Last(yy_) = ErrorRate(Predict(fitted[ci], Last(splits[ci]).test),
                                   LabelsOf(Last(splits[ci]).test))

C17_Witness ==
    /\ pc = "for_round"
    /\ hi = 2
    /\ r = 2
    /\ Len(calls) = 16
    /\ heldout[hi] = 1
    /\ heldout[1] = 50

\* C18: when a round of classifier ci has failed, the sweep has stopped: data
\* holds exactly the traces of the ci - 1 classifiers finished before, each
\* complete, nothing was appended for classifier ci although it may have
\* curve values, no later classifier has drawn a split, and no figure was
\* built in this run.
C18_FailureKeepsEarlierTraces ==
    raised.exc # "none" =>
        /\ pc = "raised"
        /\ Len(data) = ci - 1
        /\ \A k \in 1..Len(data) :
              /\ data[k].name = Name(k)
              /\ Len(data[k].y) = Len(heldout)
        /\ \A k \in (ci + 1)..Len(classifiers) : splits[k] = <<>>
        /\ IF run = 1 THEN fig = "none" ELSE fig.data = prevData

C18_Witness ==
    /\ raised.exc # "none"
    /\ run = 1
    /\ ci = 2
    /\ Len(data) = 1
    /\ Len(yy) >= 1
    /\ Len(data[1].y) = 2

====
